---- MODULE Spec2Model ----
(***************************************************************************)
(* Model of testsprite_tests/TC009_Nearby_Issue_Queries_with_Spatial_      *)
(* Indexing_Performance.py: the coroutine run_test and the asyncio.run     *)
(* call that drives it.                                                    *)
(*                                                                         *)
(* run_test is a single coroutine.  Between two steps of the model it is   *)
(* suspended at one await; pc names the awaited call.  An action is the    *)
(* completion of that call (with the result the driver reports) followed   *)
(* by the synchronous code up to the next await.  Line 104 (asyncio.sleep) *)
(* follows an `assert False` and is never executed.                        *)
(***************************************************************************)
EXTENDS Integers, Sequences, FiniteSets

\* ---------------------------------------------------------------- bounds
MaxFrames == 2
MaxPages == 2
MaxRecords == 1

\* ------------------------------------------------------ program constants
\* timeout=10000 of the page.goto at line 55
GotoTimeoutMs == 10000
\* radius=5 in the query string at line 55
RadiusKm == 5

\* The scripted interaction steps, lines 49-100, in order.
Script ==
  << [op |-> "click", line |-> 51, xpath |-> "header/a[2]"],
     [op |-> "goto",  line |-> 55, xpath |-> ""],
     [op |-> "click", line |-> 61, xpath |-> "header/a[2]"],
     [op |-> "click", line |-> 67, xpath |-> "body/div"],
     [op |-> "click", line |-> 73, xpath |-> "body/div"],
     [op |-> "click", line |-> 78, xpath |-> "body/div"],
     [op |-> "click", line |-> 84, xpath |-> "main/a"],
     [op |-> "click", line |-> 89, xpath |-> "main/a[2]"],
     [op |-> "click", line |-> 94, xpath |-> "body/div"],
     [op |-> "click", line |-> 100, xpath |-> "body/div"] >>

Steps == 1..Len(Script)

Resources == {"context", "browser", "driver"}

\* ------------------------------------------------------------ exceptions
Exc(cls, op, i) == [cls |-> cls, op |-> op, ip |-> i]

NoExc == Exc("None", "none", 0)

\* line 103: assert False, '... expected result is unknown.'
AssertionFailure == Exc("AssertionError", "assert", Len(Script))

\* The exception a driver call raises for a result other than "ok";
\* playwright's TimeoutError is a subclass of its Error.
Raises(res, op, i) ==
  IF res = "timeout" THEN Exc("TimeoutError", op, i) ELSE Exc("Error", op, i)

\* Swallowed with an except clause that lets timeouts through
SwallowedButTimeout(e) == e.cls = "Error"

\* Swallowed with no except clause around the wait
SwallowedNothing(e) == FALSE

\* `except async_api.Error: pass` at lines 37-38 and 44-45
Swallowed(e) == e.cls \in {"Error", "TimeoutError"}

\* --------------------------------------------------- results of the calls
SetupResults == {"ok", "error"}
GotoResults == {"ok", "timeout", "error"}
WaitResults == {"ok", "timeout", "error"}
SettleResults == {"ok", "error"}
ClickResults == {"ok", "timeout", "error"}
CloseResults == {"ok", "error"}

\* What the server answers to the query of line 55: the issue records with
\* their great-circle distance from (40.7128, -74.0060) in km, and the time
\* the navigation took.
Distances == {3, 7}
Statuses == {"open", "closed"}
Latencies == {1500, 9000, 12000}
RecordLists ==
  UNION { [1..n -> [dist : Distances, status : Statuses]] : n \in 0..MaxRecords }
NoResponse == [seen |-> FALSE, records |-> << >>, elapsed |-> 0]

VARIABLES
  pc,          \* the call run_test is suspended at ("done": the process exited)
  ip,          \* index in Script of the current interaction step, 0 before
  pw,          \* local pw is bound (not None)
  browser,     \* local browser is bound
  context,     \* local context is bound
  resources,   \* state of the driver, the browser process and the context
  npages,      \* Len(context.pages); the topmost page is page npages
  frame,       \* page the current locator is bound to (lines 49-50), 0: none
  nframes,     \* length of the page.frames list being iterated
  fidx,        \* position of the frame loop in that list
  raised,      \* exception raised by the try body, NoExc if none
  tdRaised,    \* exception raised by the finally block, NoExc if none
  surfaced,    \* exception that left run_test and asyncio.run
  exitStatus,  \* exit status of the process, -1 while it runs
  tdRuns,      \* number of times the finally block was entered
  attempted,   \* teardown calls made
  last,        \* the call that completed last and its result
  readyTimedOut, \* some readiness wait has timed out
  attempts,    \* per step, number of clicks started
  settled,     \* per step, the settle delay has completed
  response,    \* the answer to the query of line 55
  frameWaits,  \* per position of page.frames, readiness waits completed
  clickTarget, \* page the click in flight acts on, 0: no click in flight
  clickTop,    \* topmost page of the context when that click was issued
  inflight,    \* driver calls issued and not yet completed
  closeOrder   \* teardown calls made, in order

vars == << pc, ip, pw, browser, context, resources, npages, frame, nframes,
           fidx, raised, tdRaised, surfaced, exitStatus, tdRuns, attempted,
           last, readyTimedOut, attempts, settled, response, frameWaits,
           clickTarget, clickTop, inflight, closeOrder >>

\* lines 5-7 and the call of line 11 issued
Init ==
  /\ pc = "start"
  /\ ip = 0
  /\ pw = FALSE
  /\ browser = FALSE
  /\ context = FALSE
  /\ resources = [r \in Resources |-> "absent"]
  /\ npages = 0
  /\ frame = 0
  /\ nframes = 0
  /\ fidx = 0
  /\ raised = NoExc
  /\ tdRaised = NoExc
  /\ surfaced = NoExc
  /\ exitStatus = -1
  /\ tdRuns = 0
  /\ attempted = {}
  /\ last = [op |-> "none", res |-> "none"]
  /\ readyTimedOut = FALSE
  /\ attempts = [i \in Steps |-> 0]
  /\ settled = [i \in Steps |-> FALSE]
  /\ response = NoResponse
  /\ frameWaits = [f \in 1..MaxFrames |-> 0]
  /\ clickTarget = 0
  /\ clickTop = 0
  /\ inflight = {"start"}
  /\ closeOrder = << >>

\* ------------------------------------------------------- the finally block
\* line 111: if pw
AfterBrowser(p) == IF p THEN "stop_driver" ELSE "run_exit"

\* AfterContext without the browser.close() of lines 109-110
AfterContextSkipsBrowser(br, p) == AfterBrowser(p)

\* line 109: if browser
AfterContext(br, p) == IF br THEN "close_browser" ELSE AfterBrowser(p)

\* FinallyEntry without the `if context` guard of line 107
FinallyEntryUnguarded(ctx, br, p) == "close_context"

\* line 107: if context
FinallyEntry(ctx, br, p) == IF ctx THEN "close_context" ELSE AfterContext(br, p)

\* An exception e leaves the try body: control enters the finally block.
Abort(e, ctx, br, p) ==
  /\ raised' = e
  /\ tdRuns' = tdRuns + 1
  /\ pc' = FinallyEntry(ctx, br, p)

\* Propagated with a finally block that drops the exception in flight
PropagatedDropsBody(bodyExc, finallyExc) == finallyExc

\* What leaves run_test when the finally block ends: an exception raised in
\* the block replaces the one in flight, otherwise that one is re-raised.
Propagated(bodyExc, finallyExc) ==
  IF finallyExc # NoExc THEN finallyExc ELSE bodyExc

\* line 114: asyncio.run re-raises, the interpreter exits with status 1
ExitStatus(e) == IF e = NoExc THEN 0 ELSE 1

\* ------------------------------------------------------------ the script
\* Control reaches step i of the script (i = Len(Script) + 1: the assert of
\* line 103). A click step binds its locator to context.pages[-1] and issues
\* the settle delay; the goto step issues the navigation.
Proceed(i) ==
  IF i > Len(Script)
  THEN /\ Abort(AssertionFailure, context, browser, pw)
       /\ UNCHANGED << ip, frame >>
  ELSE /\ ip' = i
       /\ frame' = IF Script[i].op = "click" THEN npages ELSE frame
       /\ pc' = IF Script[i].op = "click" THEN "settle" ELSE "goto_api"
       /\ UNCHANGED << raised, tdRuns >>

\* await with the awaited call left pending when control goes on
AwaitLeavesPending(calls, completed, next) ==
  calls \cup (IF next \in {"run_exit", "done"} THEN {} ELSE {next})

\* `await`: the coroutine resumes when the awaited call has completed and
\* runs to the next awaited call, which it issues (none once the finally
\* block is over).
Await(calls, completed, next) ==
  (calls \ {completed})
    \cup (IF next \in {"run_exit", "done"} THEN {} ELSE {next})

\* a frame loop that does not advance
NextFrameStuck(i) == i

\* line 41: `for frame in page.frames` takes the next element of the list
NextFrame(i) == i + 1

\* a settle delay whose failure does not keep the click from being issued
SettleReturnsAlways(res) == TRUE

\* line 51: `await page.wait_for_timeout(3000); await elem.click(...)`: the
\* click is issued when the settle delay returned without raising
SettleReturns(res) == res = "ok"

\* line 11: pw = await async_api.async_playwright().start()
Start ==
  /\ pc = "start"
  /\ \E res \in SetupResults :
       /\ last' = [op |-> "start", res |-> res]
       /\ IF res = "ok"
          THEN /\ pw' = TRUE
               /\ resources' = [resources EXCEPT !["driver"] = "open"]
               /\ pc' = "launch"
               /\ UNCHANGED << raised, tdRuns >>
          ELSE /\ Abort(Raises(res, "start", 0), context, browser, pw)
               /\ UNCHANGED << pw, resources >>
  /\ UNCHANGED << ip, browser, context, npages, frame, nframes, fidx, tdRaised,
                  surfaced, exitStatus, attempted, readyTimedOut, attempts,
                  settled, response,
                  frameWaits, clickTarget, clickTop, closeOrder >>
  /\ inflight' = Await(inflight, pc, pc')

\* lines 14-22: browser = await pw.chromium.launch(...)
Launch ==
  /\ pc = "launch"
  /\ \E res \in SetupResults :
       /\ last' = [op |-> "launch", res |-> res]
       /\ IF res = "ok"
          THEN /\ browser' = TRUE
               /\ resources' = [resources EXCEPT !["browser"] = "open"]
               /\ pc' = "new_context"
               /\ UNCHANGED << raised, tdRuns >>
          ELSE /\ Abort(Raises(res, "launch", 0), context, browser, pw)
               /\ UNCHANGED << browser, resources >>
  /\ UNCHANGED << ip, pw, context, npages, frame, nframes, fidx, tdRaised,
                  surfaced, exitStatus, attempted, readyTimedOut, attempts,
                  settled, response,
                  frameWaits, clickTarget, clickTop, closeOrder >>
  /\ inflight' = Await(inflight, pc, pc')

\* lines 25-29: context = await browser.new_context();
\* context.set_default_timeout(5000); page = await context.new_page() issued
NewContext ==
  /\ pc = "new_context"
  /\ \E res \in SetupResults :
       /\ last' = [op |-> "new_context", res |-> res]
       /\ IF res = "ok"
          THEN /\ context' = TRUE
               /\ resources' = [resources EXCEPT !["context"] = "open"]
               /\ pc' = "new_page"
               /\ UNCHANGED << raised, tdRuns >>
          ELSE /\ Abort(Raises(res, "new_context", 0), context, browser, pw)
               /\ UNCHANGED << context, resources >>
  /\ UNCHANGED << ip, pw, browser, npages, frame, nframes, fidx, tdRaised,
                  surfaced, exitStatus, attempted, readyTimedOut, attempts,
                  settled, response,
                  frameWaits, clickTarget, clickTop, closeOrder >>
  /\ inflight' = Await(inflight, pc, pc')

\* line 29: page = await context.new_page(); line 32 issued
NewPage ==
  /\ pc = "new_page"
  /\ \E res \in SetupResults :
       /\ last' = [op |-> "new_page", res |-> res]
       /\ IF res = "ok"
          THEN /\ npages' = npages + 1
               /\ pc' = "goto_home"
               /\ UNCHANGED << raised, tdRuns >>
          ELSE /\ Abort(Raises(res, "new_page", 0), context, browser, pw)
               /\ UNCHANGED npages
  /\ UNCHANGED << ip, pw, browser, context, resources, frame, nframes, fidx,
                  tdRaised, surfaced, exitStatus, attempted, readyTimedOut,
                  attempts, settled, response,
                  frameWaits, clickTarget, clickTop, closeOrder >>
  /\ inflight' = Await(inflight, pc, pc')

\* line 32: await page.goto("http://localhost:3000", wait_until="commit",
\* timeout=10000); line 36 issued
GotoHome ==
  /\ pc = "goto_home"
  /\ \E res \in GotoResults :
       /\ last' = [op |-> "goto_home", res |-> res]
       /\ IF res = "ok"
          THEN /\ pc' = "wait_main"
               /\ UNCHANGED << raised, tdRuns >>
          ELSE Abort(Raises(res, "goto_home", 0), context, browser, pw)
  /\ UNCHANGED << ip, pw, browser, context, resources, npages, frame, nframes,
                  fidx, tdRaised, surfaced, exitStatus, attempted,
                  readyTimedOut, attempts, settled, response,
                  frameWaits, clickTarget, clickTop, closeOrder >>
  /\ inflight' = Await(inflight, pc, pc')

\* lines 35-41: the readiness wait of the main page in its try/except, then
\* page.frames is read (n frames) and the loop is entered
WaitMain ==
  /\ pc = "wait_main"
  /\ \E res \in WaitResults, n \in 0..MaxFrames :
       LET e == Raises(res, "wait_main", 0) IN
       /\ last' = [op |-> "wait_main", res |-> res]
       /\ IF res = "ok" \/ Swallowed(e)
          THEN /\ readyTimedOut' = (readyTimedOut \/ res = "timeout")
               /\ nframes' = n
               /\ IF n = 0
                  THEN fidx' = 0 /\ Proceed(1)
                  ELSE /\ fidx' = 1
                       /\ pc' = "wait_frame"
                       /\ UNCHANGED << ip, frame, raised, tdRuns >>
          ELSE /\ Abort(e, context, browser, pw)
               /\ UNCHANGED << readyTimedOut, nframes, fidx, ip, frame >>
  /\ UNCHANGED << pw, browser, context, resources, npages, tdRaised, surfaced,
                  exitStatus, attempted, attempts, settled, response,
                  frameWaits, clickTarget, clickTop, closeOrder >>
  /\ inflight' = Await(inflight, pc, pc')

\* lines 41-45: the readiness wait of frame fidx in its try/except, then the
\* next iteration or the first interaction step
WaitFrame ==
  /\ pc = "wait_frame"
  /\ \E res \in WaitResults :
       LET e == Raises(res, "wait_frame", 0) IN
       /\ last' = [op |-> "wait_frame", res |-> res]
       /\ frameWaits' = [frameWaits EXCEPT ![fidx] = IF @ < 2 THEN @ + 1 ELSE @]
       /\ IF res = "ok" \/ Swallowed(e)
          THEN /\ readyTimedOut' = (readyTimedOut \/ res = "timeout")
               /\ IF fidx < nframes
                  THEN /\ fidx' = NextFrame(fidx)
                       /\ UNCHANGED << pc, ip, frame, raised, tdRuns >>
                  ELSE fidx' = fidx /\ Proceed(1)
          ELSE /\ Abort(e, context, browser, pw)
               /\ UNCHANGED << readyTimedOut, fidx, ip, frame >>
  /\ UNCHANGED << pw, browser, context, resources, npages, nframes, tdRaised,
                  surfaced, exitStatus, attempted, attempts, settled,
                  response,
                  clickTarget, clickTop, closeOrder >>
  /\ inflight' = Await(inflight, pc, pc')

\* await page.wait_for_timeout(3000) of a click step (lines 51, 61, ...,
\* 100); on completion elem.click(timeout=5000) is issued
Settle ==
  /\ pc = "settle"
  /\ \E res \in SettleResults :
       /\ last' = [op |-> "settle", res |-> res]
       /\ settled' = [settled EXCEPT ![ip] = (res = "ok")]
       /\ IF SettleReturns(res)
          THEN /\ attempts' = [attempts EXCEPT ![ip] = @ + 1]
               /\ clickTarget' = frame
               /\ clickTop' = npages
               /\ pc' = "click"
               /\ UNCHANGED << raised, tdRuns >>
          ELSE /\ Abort(Raises(res, "settle", ip), context, browser, pw)
               /\ UNCHANGED << attempts, clickTarget, clickTop >>
  /\ UNCHANGED << ip, pw, browser, context, resources, npages, frame, nframes,
                  fidx, tdRaised, surfaced, exitStatus, attempted,
                  readyTimedOut, response,
                  frameWaits, closeOrder >>
  /\ inflight' = Await(inflight, pc, pc')

\* await elem.click(timeout=5000) of a click step; on success control
\* reaches the next step (or the assert of line 103)
Click ==
  /\ pc = "click"
  /\ \E res \in ClickResults :
       /\ last' = [op |-> "click", res |-> res]
       /\ IF res = "ok"
          THEN Proceed(ip + 1)
          ELSE /\ Abort(Raises(res, "click", ip), context, browser, pw)
               /\ UNCHANGED << ip, frame >>
  /\ UNCHANGED << pw, browser, context, resources, npages, nframes, fidx,
                  tdRaised, surfaced, exitStatus, attempted, readyTimedOut,
                  attempts, settled, response,
                  frameWaits, closeOrder >>
  /\ clickTarget' = 0
  /\ clickTop' = 0
  /\ inflight' = Await(inflight, pc, pc')

\* GotoResult of a navigation without the timeout=10000 argument
GotoResultNoTimeout(lat, failed) == IF failed THEN "error" ELSE "ok"

\* Result of the navigation of line 55 for a server that answers after lat
\* ms (failed: the navigation itself is refused)
GotoResult(lat, failed) ==
  IF lat >= GotoTimeoutMs THEN "timeout"
  ELSE IF failed THEN "error" ELSE "ok"

\* line 55: await page.goto('http://localhost:3000/api/issues?lat=40.7128&
\* lng=-74.0060&radius=5&filter=status:open', timeout=10000)
GotoApi ==
  /\ pc = "goto_api"
  /\ \E lat \in Latencies, failed \in BOOLEAN, recs \in RecordLists :
       LET res == GotoResult(lat, failed) IN
       /\ last' = [op |-> "goto_api", res |-> res]
       /\ IF res = "ok"
          THEN /\ response' = [seen |-> TRUE, records |-> recs, elapsed |-> lat]
               /\ Proceed(ip + 1)
          ELSE /\ Abort(Raises(res, "goto_api", ip), context, browser, pw)
               /\ UNCHANGED << response, ip, frame >>
  /\ UNCHANGED << pw, browser, context, resources, npages, nframes, fidx,
                  tdRaised, surfaced, exitStatus, attempted, readyTimedOut,
                  attempts, settled,
                  frameWaits, clickTarget, clickTop, closeOrder >>
  /\ inflight' = Await(inflight, pc, pc')

\* The application opens another page in the context (a link or script that
\* opens a new tab) while the run is at a page operation.
PageOpened ==
  /\ pc \in {"goto_home", "wait_main", "wait_frame", "settle", "click",
             "goto_api"}
  /\ npages < MaxPages
  /\ npages' = npages + 1
  /\ UNCHANGED << pc, ip, pw, browser, context, resources, frame, nframes,
                  fidx, raised, tdRaised, surfaced, exitStatus, tdRuns,
                  attempted, last, readyTimedOut, attempts, settled,
                  response,
                  frameWaits, clickTarget, clickTop, closeOrder, inflight >>

\* lines 107-108: await context.close()
CloseContext ==
  /\ pc = "close_context"
  /\ attempted' = attempted \cup {"context"}
  /\ closeOrder' = Append(closeOrder, "context")
  /\ \E res \in CloseResults :
       /\ last' = [op |-> "close_context", res |-> res]
       /\ IF res = "ok"
          THEN /\ resources' = [resources EXCEPT !["context"] = "closed"]
               /\ pc' = AfterContext(browser, pw)
               /\ UNCHANGED tdRaised
          ELSE /\ tdRaised' = Raises(res, "close_context", 0)
               /\ pc' = "run_exit"
               /\ UNCHANGED resources
  /\ UNCHANGED << ip, pw, browser, context, npages, frame, nframes, fidx,
                  raised, surfaced, exitStatus, tdRuns, readyTimedOut,
                  attempts, settled, response,
                  frameWaits, clickTarget, clickTop >>
  /\ inflight' = Await(inflight, pc, pc')

\* lines 109-110: await browser.close()
CloseBrowser ==
  /\ pc = "close_browser"
  /\ attempted' = attempted \cup {"browser"}
  /\ closeOrder' = Append(closeOrder, "browser")
  /\ \E res \in CloseResults :
       /\ last' = [op |-> "close_browser", res |-> res]
       /\ IF res = "ok"
          THEN /\ resources' = [resources EXCEPT !["browser"] = "closed"]
               /\ pc' = AfterBrowser(pw)
               /\ UNCHANGED tdRaised
          ELSE /\ tdRaised' = Raises(res, "close_browser", 0)
               /\ pc' = "run_exit"
               /\ UNCHANGED resources
  /\ UNCHANGED << ip, pw, browser, context, npages, frame, nframes, fidx,
                  raised, surfaced, exitStatus, tdRuns, readyTimedOut,
                  attempts, settled, response,
                  frameWaits, clickTarget, clickTop >>
  /\ inflight' = Await(inflight, pc, pc')

\* lines 111-112: await pw.stop()
StopDriver ==
  /\ pc = "stop_driver"
  /\ attempted' = attempted \cup {"driver"}
  /\ closeOrder' = Append(closeOrder, "driver")
  /\ \E res \in CloseResults :
       /\ last' = [op |-> "stop_driver", res |-> res]
       /\ IF res = "ok"
          THEN /\ resources' = [resources EXCEPT !["driver"] = "closed"]
               /\ UNCHANGED tdRaised
          ELSE /\ tdRaised' = Raises(res, "stop_driver", 0)
               /\ UNCHANGED resources
  /\ pc' = "run_exit"
  /\ UNCHANGED << ip, pw, browser, context, npages, frame, nframes, fidx,
                  raised, surfaced, exitStatus, tdRuns, readyTimedOut,
                  attempts, settled, response,
                  frameWaits, clickTarget, clickTop >>
  /\ inflight' = Await(inflight, pc, pc')

\* line 114: asyncio.run(run_test()) ends; the process exits
RunExit ==
  /\ pc = "run_exit"
  /\ surfaced' = Propagated(raised, tdRaised)
  /\ exitStatus' = ExitStatus(Propagated(raised, tdRaised))
  /\ pc' = "done"
  /\ UNCHANGED << ip, pw, browser, context, resources, npages, frame, nframes,
                  fidx, raised, tdRaised, tdRuns, attempted, last,
                  readyTimedOut, attempts, settled, response,
                  frameWaits, clickTarget, clickTop, closeOrder >>
  /\ inflight' = Await(inflight, pc, pc')

Next ==
  \/ Start
  \/ Launch
  \/ NewContext
  \/ NewPage
  \/ GotoHome
  \/ WaitMain
  \/ WaitFrame
  \/ Settle
  \/ Click
  \/ GotoApi
  \/ PageOpened
  \/ CloseContext
  \/ CloseBrowser
  \/ StopDriver
  \/ RunExit

Spec == Init /\ [][Next]_vars

\* The steps of run_test itself (all but the application opening a page).
RunStep ==
  \/ Start
  \/ Launch
  \/ NewContext
  \/ NewPage
  \/ GotoHome
  \/ WaitMain
  \/ WaitFrame
  \/ Settle
  \/ Click
  \/ GotoApi
  \/ CloseContext
  \/ CloseBrowser
  \/ StopDriver
  \/ RunExit

\* Every awaited call eventually completes or times out and the event loop
\* of asyncio.run then resumes the coroutine.
FairSpec == Spec /\ WF_vars(RunStep)

TypeOK ==
  /\ pc \in {"start", "launch", "new_context", "new_page", "goto_home",
             "wait_main", "wait_frame", "settle", "click", "goto_api",
             "close_context", "close_browser", "stop_driver", "run_exit",
             "done"}
  /\ ip \in 0..Len(Script)
  /\ npages \in 0..MaxPages
  /\ frame \in 0..MaxPages
  /\ fidx \in 0..MaxFrames
  /\ exitStatus \in {-1, 0, 1}
  /\ tdRuns \in 0..1
  /\ attempted \subseteq Resources

\* ---------------------------------------------------------------- claims
Terminated == pc = "done"

ReadinessWaits == {"wait_main", "wait_frame"}

TeardownCalls == {"close_context", "close_browser", "stop_driver"}

\* The failure of a click whose element did not resolve within 5000 ms
LocatorTimeout(e) == e.cls = "TimeoutError" /\ e.op = "click"

\* The failure of the query navigation of line 55 not answered within
\* 10000 ms
NoMatchingRequest == Exc("TimeoutError", "goto_api", 2)

\* C1: the finally block is entered at most once, exactly once by the time
\* run_test is left, and when no teardown call failed every resource that was
\* acquired (context, browser, driver) is closed when run_test is left,
\* whichever step raised.
C1_TeardownOnceAllReleased ==
  /\ tdRuns <= 1
  /\ pc \in {"run_exit", "done"} => tdRuns = 1
  /\ (pc \in {"run_exit", "done"} /\ tdRaised = NoExc) =>
       \A r \in Resources : resources[r] # "open"

C1_Witness ==
  /\ Terminated
  /\ raised.op = "click"
  /\ tdRaised = NoExc
  /\ \A r \in Resources : resources[r] = "closed"

\* C2: when run_test is left, the close of every acquired resource has been
\* attempted, also after an earlier teardown call failed, and no teardown
\* failure is what run_test raises.
C2_TeardownStepsIndependent ==
  Terminated =>
    /\ context => "context" \in attempted
    /\ browser => "browser" \in attempted
    /\ pw => "driver" \in attempted
    /\ surfaced.op \notin TeardownCalls

\* C3: when a step of the try body raised, the exception run_test surfaces is
\* that one, also when a teardown call failed afterwards.
C3_TeardownNeverMasks ==
  (Terminated /\ raised # NoExc) => surfaced = raised

\* C4: no run ends passed, and a run whose scripted steps all succeeded ends
\* failed with the 'expected result is unknown' assertion of line 103.
C4_NeverPasses ==
  Terminated =>
    /\ surfaced # NoExc
    /\ exitStatus # 0
    /\ (ip = Len(Script) /\ last.op \notin {"settle", "click"} /\ raised.op = "assert")
         => surfaced = AssertionFailure

\* C5: a readiness wait (main page or frame) that times out raises nothing
\* and control goes on to the next frame's wait or to the first interaction
\* step (locator bound to the topmost page, settle delay issued); a run in
\* which a readiness wait timed out never ends before that step has started.
C5_ReadinessTimeoutContinues ==
  /\ [](readyTimedOut /\ raised # NoExc =>
          ip >= 1 /\ raised.op \notin ReadinessWaits)
  /\ [][(/\ pc \in ReadinessWaits
         /\ pc' # pc \/ fidx' # fidx
         /\ last'.res = "timeout")
        => /\ raised' = NoExc
           /\ tdRuns' = 0
           /\ \/ pc' = "wait_frame" /\ fidx' <= nframes'
              \/ pc' = "settle" /\ ip' = 1 /\ frame' = npages]_vars

C5_Witness ==
  /\ readyTimedOut
  /\ pc = "click"
  /\ ip = 1
  /\ attempts[1] = 1

\* C6: a click that timed out ends the run failed with that timeout, was
\* attempted once, no later step was started, and the context, the browser
\* and the driver are closed.
C6_ClickTimeoutTerminal ==
  (Terminated /\ LocatorTimeout(raised)) =>
    /\ surfaced = raised
    /\ attempts[raised.ip] = 1
    /\ ip = raised.ip
    /\ \A j \in Steps : j > raised.ip => attempts[j] = 0 /\ ~settled[j]
    /\ \A r \in Resources : resources[r] = "closed"

\* C7: a run whose steps all succeed and whose query answer holds only open
\* records within 5 km, received within 2000 ms, ends passed.
C7_ConformingResponsePasses ==
  (/\ Terminated
   /\ raised.op = "assert"
   /\ tdRaised = NoExc
   /\ response.seen
   /\ \A k \in DOMAIN response.records :
        /\ response.records[k].dist <= RadiusKm
        /\ response.records[k].status = "open"
   /\ response.elapsed <= 2000)
  => (surfaced = NoExc /\ exitStatus = 0)

\* C8: a query navigation not answered within 10000 ms ends the run failed
\* with that failure (NoMatchingRequest), and a run whose query was answered,
\* however slowly, never ends with it.
C8_NoMatchingRequestDistinct ==
  Terminated =>
    /\ raised = NoMatchingRequest => surfaced = NoMatchingRequest
    /\ response.seen => surfaced # NoMatchingRequest

\* C9: there is no outcome before run_test is left and exactly one after; any
\* exception raised in run_test leaves it after the finally block ran and the
\* process exits with a failure status.
C9_FailureObservable ==
  /\ ~Terminated => surfaced = NoExc /\ exitStatus = -1
  /\ Terminated =>
       /\ exitStatus \in {0, 1}
       /\ tdRuns = 1
       /\ (raised # NoExc \/ tdRaised # NoExc) =>
            /\ surfaced \in {raised, tdRaised} \ {NoExc}
            /\ exitStatus = 1

C9_Witness ==
  /\ Terminated
  /\ raised = AssertionFailure
  /\ surfaced = AssertionFailure
  /\ exitStatus = 1

\* C10: a query answer holding a record farther than the radius from the
\* center ends the run failed with a SpatialBoundsViolation that names such
\* a record.
C10_SpatialBoundsValidated ==
  (/\ Terminated
   /\ response.seen
   /\ \E k \in DOMAIN response.records : response.records[k].dist > RadiusKm)
  => /\ surfaced.cls = "SpatialBoundsViolation"
     /\ surfaced.ip \in DOMAIN response.records
     /\ response.records[surfaced.ip].dist > RadiusKm

\* A readiness wait completes in this step (the other steps leave both pc
\* and the waits' counters alone).
WaitCompletes ==
  /\ pc \in ReadinessWaits
  /\ pc' # pc \/ frameWaits' # frameWaits

\* C11: the completion of a readiness wait changes nothing the verdict or
\* the later steps depend on, whatever its result: no exception is set, the
\* outcome, the clicks made and the resources are untouched, and control
\* goes where the position in the frame list alone says (next frame, or the
\* first interaction step). Two runs that differ only in the results of
\* their readiness waits therefore go through the same steps to the same
\* outcome.
C11_WaitResultIrrelevant ==
  [][WaitCompletes =>
       /\ UNCHANGED << raised, tdRaised, surfaced, exitStatus, tdRuns,
                       attempts, settled, response, resources, attempted,
                       closeOrder, clickTarget, clickTop, npages >>
       /\ IF pc = "wait_frame" /\ fidx < nframes
          THEN pc' = "wait_frame" /\ fidx' = fidx + 1 /\ ip' = ip
          ELSE IF pc = "wait_main" /\ nframes' > 0
          THEN pc' = "wait_frame" /\ fidx' = 1 /\ ip' = ip
          ELSE pc' = "settle" /\ ip' = 1 /\ frame' = npages]_vars

C11_Witness ==
  /\ Terminated
  /\ readyTimedOut
  /\ raised = AssertionFailure
  /\ surfaced = AssertionFailure

\* C12: every frame of the list is waited on exactly once, in order, for any
\* length of the list (none for an empty list), and a frame's wait that ends
\* in a timeout or an error raises nothing and is followed by the wait of the
\* next frame.
C12_EachFrameWaitedOnce ==
  /\ [](\A f \in 1..MaxFrames :
          /\ frameWaits[f] <= 1
          /\ frameWaits[f] = 1 => f <= nframes
          /\ pc = "wait_frame" => (frameWaits[f] = 1 <=> f < fidx)
          /\ (ip >= 1 /\ f <= nframes) => frameWaits[f] = 1)
  /\ [][(pc = "wait_frame" /\ frameWaits' # frameWaits) =>
          /\ raised' = NoExc
          /\ fidx < nframes => (pc' = "wait_frame" /\ fidx' = fidx + 1)]_vars

C12_Witness ==
  /\ pc = "wait_frame"
  /\ fidx = 2
  /\ frameWaits[1] = 1
  /\ last = [op |-> "wait_frame", res |-> "error"]

\* Steps of the script whose click has been issued
ClicksStarted == { i \in Steps : attempts[i] >= 1 }

\* C13: the page a click acts on is the topmost page of the context at the
\* moment the click starts, also when a page was opened during the settle
\* delay before it.
C13_ClickOnTopmostAtClick ==
  pc = "click" => clickTarget = clickTop

\* C14 as stated: each of ten clicks is issued once, only after the settle
\* delay of its own step completed, and never after that delay failed; a run
\* whose steps all succeed has issued ten clicks.
C14_TenClicksAfterOwnSettle ==
  /\ \A i \in Steps :
       /\ attempts[i] <= 1
       /\ attempts[i] = 1 => settled[i]
  /\ pc = "click" => (attempts[ip] = 1 /\ settled[ip])
  /\ raised.op = "settle" => (attempts[raised.ip] = 0 /\ ~settled[raised.ip])
  /\ (Terminated /\ raised = AssertionFailure) => Cardinality(ClicksStarted) = 10

\* C14 (amended): each of the nine clicks of the script is issued once, only
\* after the settle delay of its own step completed, and never after that
\* delay failed; a run whose steps all succeed has issued nine clicks.
C14_ClickAfterOwnSettle ==
  /\ \A i \in Steps :
       /\ attempts[i] <= 1
       /\ attempts[i] = 1 => (settled[i] /\ Script[i].op = "click")
  /\ pc = "click" => (attempts[ip] = 1 /\ settled[ip])
  /\ raised.op = "settle" => (attempts[raised.ip] = 0 /\ ~settled[raised.ip])
  /\ (Terminated /\ raised = AssertionFailure) =>
       /\ Cardinality(ClicksStarted) = 9
       /\ ClicksStarted = { i \in Steps : Script[i].op = "click" }

C14_Witness ==
  /\ pc = "click"
  /\ ip = 3
  /\ settled[3]
  /\ attempts[3] = 1

\* C15: at most one driver call is in flight at any time, it is the one
\* run_test is suspended at; when control moves to another call the previous
\* one has completed; and the script index only moves to the next step, after
\* the call before it returned (or, for the first step, after the readiness
\* waits ended).
C15_OneOperationAtATime ==
  /\ [](Cardinality(inflight) <= 1 /\ inflight \subseteq {pc})
  /\ [][pc' # pc => pc \notin inflight']_vars
  /\ [][ip' # ip =>
          /\ ip' = ip + 1
          /\ last'.res = "ok" \/ last'.op \in ReadinessWaits]_vars

C15_Witness ==
  /\ pc = "goto_api"
  /\ inflight = {"goto_api"}
  /\ attempts[1] = 1

PageCalls ==
  {"goto_home", "wait_main", "wait_frame", "settle", "click", "goto_api"}

\* Position of a resource in the teardown order context, browser, driver
CloseRank == [r \in Resources |->
                IF r = "context" THEN 1 ELSE IF r = "browser" THEN 2 ELSE 3]

\* The local variable holding resource r is bound
Bound(r) ==
  IF r = "context" THEN context ELSE IF r = "browser" THEN browser ELSE pw

\* C16: resources are acquired in the order driver, browser, context; the
\* teardown calls are made in the order context, browser, driver; a close is
\* only ever called on a resource that was acquired; and when no teardown
\* call failed the calls made are exactly those of the acquired resources.
C16_ReverseOrderOnlyAcquired ==
  /\ \A i, j \in DOMAIN closeOrder :
       i < j => CloseRank[closeOrder[i]] < CloseRank[closeOrder[j]]
  /\ \A i \in DOMAIN closeOrder :
       Bound(closeOrder[i]) /\ resources[closeOrder[i]] # "absent"
  /\ pc = "close_context" => context
  /\ pc = "close_browser" => browser
  /\ pc = "stop_driver" => pw
  /\ resources["context"] # "absent" => resources["browser"] # "absent"
  /\ resources["browser"] # "absent" => resources["driver"] # "absent"
  /\ (pc \in {"run_exit", "done"} /\ tdRaised = NoExc) =>
       { closeOrder[i] : i \in DOMAIN closeOrder }
         = { r \in Resources : resources[r] # "absent" }

C16_Witness ==
  /\ Terminated
  /\ raised.op = "launch"
  /\ closeOrder = << "driver" >>
  /\ resources["browser"] = "absent"

\* C17: each resource of the session only moves from absent to open to
\* closed; a page call is only in flight while the context is open and the
\* finally block has not been entered; once it has been entered no page call
\* is issued any more.
C17_SessionMonotone ==
  /\ [](pc \in PageCalls => (resources["context"] = "open" /\ tdRuns = 0))
  /\ [](tdRuns >= 1 => inflight \cap PageCalls = {})
  /\ [][/\ tdRuns >= 1 => pc' \notin PageCalls
        /\ \A r \in Resources :
             /\ resources[r] = "closed" => resources'[r] = "closed"
             /\ resources[r] = "open" => resources'[r] # "absent"]_vars

C17_Witness ==
  /\ Terminated
  /\ resources["context"] = "closed"
  /\ attempts[1] = 1
  /\ inflight = {}

\* C18: a page.goto that fails or times out (line 32 or line 55) raises and
\* control enters the finally block; no readiness wait, settle delay or
\* click is issued after it, the run ends with an exception and a failure
\* status, and a query navigation that took 10000 ms or more never counts
\* as answered.
C18_GotoFailureFatal ==
  /\ [](response.seen => response.elapsed < GotoTimeoutMs)
  /\ [](raised.op \in {"goto_home", "goto_api"} =>
          /\ pc \in TeardownCalls \cup {"run_exit", "done"}
          /\ tdRuns = 1
          /\ inflight \cap PageCalls = {}
          /\ raised.op = "goto_home" =>
               /\ ip = 0
               /\ ~readyTimedOut
               /\ \A f \in 1..MaxFrames : frameWaits[f] = 0
               /\ \A i \in Steps : attempts[i] = 0 /\ ~settled[i]
          /\ raised.op = "goto_api" =>
               /\ ip = 2
               /\ ~response.seen
               /\ \A i \in Steps : i > 2 => (attempts[i] = 0 /\ ~settled[i])
          /\ Terminated =>
               /\ surfaced # NoExc
               /\ exitStatus = 1
               /\ "context" \in attempted)
  /\ [][(pc \in {"goto_home", "goto_api"} /\ pc' # pc /\ last'.res # "ok") =>
          /\ raised' = Raises(last'.res, pc, ip)
          /\ tdRuns' = 1
          /\ pc' = "close_context"]_vars

C18_Witness ==
  /\ Terminated
  /\ raised = Exc("TimeoutError", "goto_home", 0)
  /\ closeOrder = << "context", "browser", "driver" >>

\* C19: when every awaited call eventually completes or times out, every run
\* ends: the process has exited with one outcome, the finally block has run,
\* and no call is left in flight.
C19_Terminates ==
  <>[](/\ Terminated
       /\ exitStatus \in {0, 1}
       /\ tdRuns = 1
       /\ inflight = {})

C19_Witness ==
  /\ Terminated
  /\ exitStatus = 1
  /\ raised.op = "settle"
  /\ inflight = {}

====
